---- MODULE Spec2Model ----
(***************************************************************************)
(* A model of the gec library: the add group over a modulus M on fixed     *)
(* width limb sequences (bigint/mixin/mod_add_sub.hpp), the Pollard        *)
(* lambda solvers for the discrete logarithm, single threaded and with     *)
(* pthreads workers (dlp/pollard_lambda.hpp), and the elliptic curve       *)
(* arithmetic in Jacobian coordinates (curve/mixin/jacobian.hpp).          *)
(***************************************************************************)
EXTENDS Integers, Sequences, FiniteSets, TLC

\* ------------------------------------------------------------------ bounds

\* Number of limbs of a big integer (template parameter LIMB_N).
LimbN == 2
\* Bits of one limb (std::numeric_limits<LIMB_T>::digits), scaled down.
LimbBits == 2
\* Largest shift amount K of mul_pow2<K> that is applied.
MaxK == 3
\* Order of the cyclic group the solvers work in (the modulus of the scalar S).
Order == 5
\* Largest walk length `bound` a solve is called with.
MaxBound == 2
\* Number of worker threads of a multithreaded solve (worker_n).
WorkerN == 2
\* Number of retries of the multithreaded solve that are followed.
MaxRetry == 1
\* Largest walk length `bound` a multithreaded solve is called with.
MtMaxBound == 1
\* Number of values a read outside the jump table may return: 0 .. JunkN - 1.
JunkN == 2
\* The field of the curve is the prime field of the least prime above PrimeFloor.
PrimeFloor == 4
\* Largest jump table length m the table construction is followed for.
MaxTable == 4

LimbBase == 2 ^ LimbBits
Limbs == 0 .. (LimbBase - 1)
LimbIdx == 1 .. LimbN
\* Little-endian limb sequences: index 1 is array()[0].
LimbSeqs == [LimbIdx -> Limbs]
TotalBits == LimbN * LimbBits

VARIABLES
    \* add group: template parameter MOD, operands, shift amount, result
    MOD, fa, fb, fk, fop, fout,
    \* big integer add and sub: the carry or borrow flag returned
    fflag,
    \* curve: coefficients A and B, operand points, result point, result of
    \* eq, the last call and the call before it on the same result
    cA, cB, cp, cq, cr, ceq, cop, cprev,
    \* solver inputs
    a, b, g, h, bound,
    \* solver state shared by both variants: result x and jump table
    x, sl, pl, m,
    \* single threaded solver
    pc, u, v, d, idx,
    \* multithreaded solver: SharedData
    traps, x_lock, traps_lock, barrier, shutdown,
    \* multithreaded solver: per worker locals and the main thread
    wpc, wx, wu, wj, wit, witer, mpc,
    \* history: number of stores to the result cell, process killed by a trap
    writes, crashed

fieldVars == <<MOD, fa, fb, fk, fop, fout, fflag>>
curveVars == <<cA, cB, cp, cq, cr, ceq, cop, cprev>>
inVars == <<a, b, g, h, bound>>
tableVars == <<sl, pl, m>>
stVars == <<pc, u, v, d, idx>>
sharedVars == <<traps, x_lock, traps_lock, barrier, shutdown>>
workerVars == <<wpc, wx, wu, wj, wit, witer, mpc>>
histVars == <<writes, crashed>>
vars == <<fieldVars, curveVars, inVars, x, tableVars, stVars, sharedVars, workerVars, histVars>>

\* ------------------------------------------------- limb sequence arithmetic

RECURSIVE ValueFrom(_, _)
\* The integer a limb sequence denotes, summed from limb i upwards.
ValueFrom(s, i) == IF i > LimbN THEN 0 ELSE s[i] + LimbBase * ValueFrom(s, i + 1)
Value(s) == ValueFrom(s, 1)

\* The limb sequence of n mod 2^(N*W) (Array construction from a number).
FromValue(n) == [i \in LimbIdx |-> (n \div (LimbBase ^ (i - 1))) % LimbBase]

RECURSIVE CarryAt(_, _, _)
\* Carry out of limb i of the ripple-carry addition p + q.
CarryAt(p, q, i) ==
    IF i = 0 THEN 0 ELSE (p[i] + q[i] + CarryAt(p, q, i - 1)) \div LimbBase

\* utils::seq_add: out = p + q mod 2^(N*W), returns the carry out of the top limb.
seq_add(p, q) ==
    [val |-> [i \in LimbIdx |-> (p[i] + q[i] + CarryAt(p, q, i - 1)) % LimbBase],
     carry |-> CarryAt(p, q, LimbN) = 1]

RECURSIVE BorrowAt(_, _, _)
\* Borrow out of limb i of the ripple-borrow subtraction p - q.
BorrowAt(p, q, i) ==
    IF i = 0 THEN 0
    ELSE IF p[i] < q[i] + BorrowAt(p, q, i - 1) THEN 1 ELSE 0

\* utils::seq_sub: out = p - q mod 2^(N*W), returns the borrow of the top limb.
seq_sub(p, q) ==
    [val |-> [i \in LimbIdx |->
                 (LimbBase + p[i] - q[i] - BorrowAt(p, q, i - 1)) % LimbBase],
     borrow |-> BorrowAt(p, q, LimbN) = 1]

RECURSIVE CmpFrom(_, _, _)
\* Compare limb by limb from limb i down to the least significant one.
CmpFrom(p, q, i) ==
    IF i = 0 THEN "Eq"
    ELSE IF p[i] < q[i] THEN "Lt"
    ELSE IF p[i] > q[i] THEN "Gt"
    ELSE CmpFrom(p, q, i - 1)

\* utils::VtSeqCmp::call: compare from the most significant limb down.
VtSeqCmp(p, q) == CmpFrom(p, q, LimbN)

\* utils::seq_shift_left<N, K>: logical left shift by K bits, bits shifted out
\* of the top limb are lost.
seq_shift_left(p, K) ==
    LET ls == K \div LimbBits
        bs == K % LimbBits
    IN  [i \in LimbIdx |->
            (IF i - ls >= 1 THEN (p[i - ls] * (2 ^ bs)) % LimbBase ELSE 0)
          + (IF i - ls - 1 >= 1 THEN p[i - ls - 1] \div (2 ^ (LimbBits - bs)) ELSE 0)]

\* Core::is_zero and Core::set_zero
is_zero(p) == \A i \in LimbIdx : p[i] = 0
ZeroSeq == [i \in LimbIdx |-> 0]

\* The top bit of the top limb: a.array()[Idx] & Mask.
TopBit(p) == p[LimbN] \div (2 ^ (LimbBits - 1)) = 1

\* ------------------------------------------------------- ModAddSub (add group)

\* The conditional subtraction both add forms end with, without the carry test
\* (what add becomes when the carry out of the top limb is dropped).
add_NoCarryCheck(p, q, M) ==
    LET r == seq_add(p, q)
    IN  IF VtSeqCmp(r.val, M) # "Lt" THEN seq_sub(r.val, M).val ELSE r.val

\* ModAddSub::add(a, b, c): a = b + c (mod MOD)
ModAddSub_add(p, q, M) ==
    LET r == seq_add(p, q)
    IN  IF r.carry \/ VtSeqCmp(r.val, M) # "Lt"
        THEN seq_sub(r.val, M).val
        ELSE r.val

\* ModAddSub::add(a, b): a = a + b (mod MOD), in place
ModAddSub_add_inplace(p, q, M) ==
    LET r == seq_add(p, q)
    IN  IF r.carry \/ VtSeqCmp(r.val, M) # "Lt"
        THEN seq_sub(r.val, M).val
        ELSE r.val

\* neg that subtracts from MOD also when the operand is zero.
neg_NoZeroCheck(p, M) == seq_sub(M, p).val

\* ModAddSub::neg(a, b): a = -b (mod MOD)
ModAddSub_neg(p, M) ==
    IF is_zero(p) THEN ZeroSeq ELSE seq_sub(M, p).val

\* sub that never adds MOD back.
sub_NoAddBack(p, q, M) == seq_sub(p, q).val

\* ModAddSub::sub(a, b, c): a = b - c (mod MOD)
ModAddSub_sub(p, q, M) ==
    LET r == seq_sub(p, q)
    IN  IF r.borrow THEN seq_add(r.val, M).val ELSE r.val

\* ModAddSub::sub(a, b): a = a - b (mod MOD), in place
ModAddSub_sub_inplace(p, q, M) ==
    LET r == seq_sub(p, q)
    IN  IF r.borrow THEN seq_add(r.val, M).val ELSE r.val

RECURSIVE MulPow2Helper_NoCarry(_, _, _)
\* MulPow2Helper that forgets the bit shifted out of the top limb.
MulPow2Helper_NoCarry(K, p, M) ==
    IF K = 0 THEN p
    ELSE LET s == seq_shift_left(p, 1)
             r == IF VtSeqCmp(s, M) # "Lt" THEN seq_sub(s, M).val ELSE s
         IN  MulPow2Helper_NoCarry(K - 1, r, M)

RECURSIVE MulPow2Helper(_, _, _)
\* MulPow2Helper<Core, K, ...>::call: K times "shift left one bit, subtract MOD
\* when the top bit was shifted out or the result is not below MOD".
MulPow2Helper(K, p, M) ==
    IF K = 0 THEN p
    ELSE LET carry == TopBit(p)
             s == seq_shift_left(p, 1)
             r == IF carry \/ VtSeqCmp(s, M) # "Lt" THEN seq_sub(s, M).val ELSE s
         IN  MulPow2Helper(K - 1, r, M)

\* ModAddSub::mul_pow2<K>(a) and ModAddSub::add_self(a)
ModAddSub_mul_pow2(K, p, M) == MulPow2Helper(K, p, M)
ModAddSub_add_self(p, M) == MulPow2Helper(1, p, M)

RECURSIVE CarryFreeMulPow2Helper(_, _, _)
\* CarryFreeMulPow2Helper<Core, K, ...>::call: shift left by K bits, subtract
\* MOD once when the result is not below MOD, then call the helper of K - 1.
CarryFreeMulPow2Helper(K, p, M) ==
    IF K = 0 THEN p
    ELSE LET s == seq_shift_left(p, K)
             r == IF VtSeqCmp(s, M) # "Lt" THEN seq_sub(s, M).val ELSE s
         IN  CarryFreeMulPow2Helper(K - 1, r, M)

\* ModAddSubMixinCarryFree::mul_pow2<K>(a)
CarryFree_mul_pow2(K, p, M) == CarryFreeMulPow2Helper(K, p, M)

\* add that never subtracts MOD.
CarryFree_add_NoReduce(p, q, M) == seq_add(p, q).val

\* ModAddSubMixinCarryFree::add(a, b, c): the carry of seq_add is dropped
CarryFree_add(p, q, M) ==
    LET r == seq_add(p, q)
    IN  IF VtSeqCmp(r.val, M) # "Lt" THEN seq_sub(r.val, M).val ELSE r.val

\* ModAddSubMixinCarryFree::add(a, b), in place
CarryFree_add_inplace(p, q, M) ==
    LET r == seq_add(p, q)
    IN  IF VtSeqCmp(r.val, M) # "Lt" THEN seq_sub(r.val, M).val ELSE r.val

\* ModAddSubMixinCarryFree::neg(a, b)
CarryFree_neg(p, M) ==
    IF is_zero(p) THEN ZeroSeq ELSE seq_sub(M, p).val

\* ModAddSubMixinCarryFree::sub(a, b, c)
CarryFree_sub(p, q, M) ==
    LET r == seq_sub(p, q)
    IN  IF r.borrow THEN seq_add(r.val, M).val ELSE r.val

\* ModAddSubMixinCarryFree::sub(a, b), in place
CarryFree_sub_inplace(p, q, M) ==
    LET r == seq_sub(p, q)
    IN  IF r.borrow THEN seq_add(r.val, M).val ELSE r.val

\* ModAddSubMixinCarryFree::add_self(a)
CarryFree_add_self(p, M) == CarryFreeMulPow2Helper(1, p, M)

\* add that loses the carry between limbs.
BigInt_add_NoRipple(p, q) ==
    [val |-> [i \in LimbIdx |-> (p[i] + q[i]) % LimbBase], carry |-> FALSE]

\* AddSubMixin::add(a, b, c) and add(a, b): ripple carry addition, returns the
\* carry out of the top limb.
BigInt_add(p, q) == seq_add(p, q)

\* AddSubMixin::sub(a, b, c) and sub(a, b): ripple borrow subtraction, returns
\* the borrow.
BigInt_sub(p, q) == seq_sub(p, q)

\* ----------------------------------------------- add group: the operations

\* The curve's variables while no point arithmetic is exercised.
CurveIdle ==
    /\ cA = 0 /\ cB = 0
    /\ cp = [x |-> 0, y |-> 0, z |-> 0]
    /\ cq = [x |-> 0, y |-> 0, z |-> 0]
    /\ cr = [x |-> 0, y |-> 0, z |-> 0]
    /\ ceq = FALSE /\ cop = "idle" /\ cprev = "idle"

\* The solvers' variables while only the add group is exercised.
SolverIdle ==
    /\ a = 0 /\ b = 0 /\ g = 0 /\ h = 0 /\ bound = 0
    /\ x = 0 /\ sl = <<>> /\ pl = <<>> /\ m = 0
    /\ pc = "idle" /\ u = 0 /\ v = 0 /\ d = 0 /\ idx = 0
    /\ traps = {} /\ x_lock = 0 /\ traps_lock = 0 /\ barrier = 0
    /\ shutdown = FALSE
    /\ wpc = <<>> /\ wx = <<>> /\ wu = <<>> /\ wj = <<>> /\ wit = <<>>
    /\ witer = <<>>
    /\ mpc = "idle"
    /\ writes = 0 /\ crashed = FALSE

solverVars == <<inVars, x, tableVars, stVars, sharedVars, workerVars, histVars>>

\* Any modulus of at least 1 and any two operands in [0, MOD).
FieldInit ==
    /\ MOD \in {M \in LimbSeqs : Value(M) >= 1}
    /\ fa \in {p \in LimbSeqs : VtSeqCmp(p, MOD) = "Lt"}
    /\ fb \in {p \in LimbSeqs : VtSeqCmp(p, MOD) = "Lt"}
    /\ fk = 0
    /\ fop = "none"
    /\ fout = ZeroSeq
    /\ fflag = FALSE
    /\ CurveIdle
    /\ SolverIdle

\* One call of an operation on the operands; fout is the output operand.
Apply(op, K, out) ==
    /\ fop = "none"
    /\ fop' = op
    /\ fk' = K
    /\ fout' = out
    /\ UNCHANGED <<MOD, fa, fb, fflag, curveVars, solverVars>>

DoAdd == Apply("add", 0, ModAddSub_add(fa, fb, MOD))
DoAddInplace == Apply("add_inplace", 0, ModAddSub_add_inplace(fa, fb, MOD))
DoNeg == Apply("neg", 0, ModAddSub_neg(fa, MOD))
DoSub == Apply("sub", 0, ModAddSub_sub(fa, fb, MOD))
DoSubInplace == Apply("sub_inplace", 0, ModAddSub_sub_inplace(fa, fb, MOD))
DoAddSelf == Apply("add_self", 1, ModAddSub_add_self(fa, MOD))
DoMulPow2 == \E K \in 0 .. MaxK : Apply("mul_pow2", K, ModAddSub_mul_pow2(K, fa, MOD))
DoCarryFreeMulPow2 ==
    \E K \in 0 .. MaxK : Apply("cf_mul_pow2", K, CarryFree_mul_pow2(K, fa, MOD))
DoCarryFreeAdd == Apply("cf_add", 0, CarryFree_add(fa, fb, MOD))
DoCarryFreeAddInplace == Apply("cf_add_inplace", 0, CarryFree_add_inplace(fa, fb, MOD))
DoCarryFreeNeg == Apply("cf_neg", 0, CarryFree_neg(fa, MOD))
DoCarryFreeSub == Apply("cf_sub", 0, CarryFree_sub(fa, fb, MOD))
DoCarryFreeSubInplace == Apply("cf_sub_inplace", 0, CarryFree_sub_inplace(fa, fb, MOD))
DoCarryFreeAddSelf == Apply("cf_add_self", 1, CarryFree_add_self(fa, MOD))

FieldNext ==
    \/ DoAdd
    \/ DoAddInplace
    \/ DoNeg
    \/ DoSub
    \/ DoSubInplace
    \/ DoAddSelf
    \/ DoMulPow2
    \/ DoCarryFreeMulPow2
    \/ DoCarryFreeAdd
    \/ DoCarryFreeAddInplace
    \/ DoCarryFreeNeg
    \/ DoCarryFreeSub
    \/ DoCarryFreeSubInplace
    \/ DoCarryFreeAddSelf

SpecField == FieldInit /\ [][FieldNext]_vars

\* The integers the operands and the modulus denote.
ModVal == Value(MOD)
AVal == Value(fa)
BVal == Value(fb)
OutVal == Value(fout)

\* C6: for a, b in [0, M) both forms of add yield exactly (a + b) mod M, a value
\* in [0, M), also when the raw sum carries out of the top limb or equals M.
C6_AddIsSumModM ==
    fop \in {"add", "add_inplace"} =>
        /\ OutVal = (AVal + BVal) % ModVal
        /\ OutVal < ModVal

\* C6 witness: an add whose raw sum carried out of the top limb has been
\* computed and reduced by one subtraction of M.
C6_Witness ==
    /\ fop = "add"
    /\ AVal + BVal >= 2 ^ TotalBits
    /\ OutVal = AVal + BVal - ModVal

\* C7: for a, b in [0, M) both forms of sub yield exactly (a - b) mod M, a value
\* in [0, M): M is added back exactly when the limb subtraction borrows.
C7_SubIsDiffModM ==
    fop \in {"sub", "sub_inplace"} =>
        /\ OutVal = (ModVal + AVal - BVal) % ModVal
        /\ OutVal < ModVal
        /\ (AVal = BVal => OutVal = 0)
        /\ seq_sub(fa, fb).borrow <=> (OutVal = AVal - BVal + ModVal /\ AVal < BVal)

\* C7 witness: sub(1, 2) = M - 1 has been computed (the subtraction borrowed).
C7_Witness ==
    /\ fop = "sub"
    /\ AVal = 1 /\ BVal = 2
    /\ OutVal = ModVal - 1

\* C8: neg returns 0 for 0 and M - a otherwise, never M itself; the result is
\* in [0, M), add(a, neg(a)) = 0 and neg(neg(a)) = a.
C8_NegIsInverse ==
    fop = "neg" =>
        /\ OutVal = (IF AVal = 0 THEN 0 ELSE ModVal - AVal)
        /\ OutVal < ModVal
        /\ is_zero(ModAddSub_add(fa, fout, MOD))
        /\ ModAddSub_neg(fout, MOD) = fa

\* C8 witness: neg of zero has been computed under a modulus above 1 and gave
\* zero, not M.
C8_Witness ==
    /\ fop = "neg"
    /\ AVal = 0
    /\ OutVal = 0
    /\ ModVal > 1

RECURSIVE Doublings(_, _, _)
\* K successive doublings add(a, a).
Doublings(K, p, M) ==
    IF K = 0 THEN p ELSE Doublings(K - 1, ModAddSub_add(p, p, M), M)

\* C9: for the carry-checked add group mul_pow2<K>(a) equals K successive
\* doublings add(a, a) and equals 2^K * a mod M, also when the top bit is
\* shifted out of the top limb; add_self(a) = mul_pow2<1>(a) = add(a, a).
C9_MulPow2IsDoubling ==
    /\ fop = "mul_pow2" =>
        /\ fout = Doublings(fk, fa, MOD)
        /\ OutVal = ((2 ^ fk) * AVal) % ModVal
    /\ fop = "add_self" =>
        /\ fout = ModAddSub_mul_pow2(1, fa, MOD)
        /\ fout = ModAddSub_add(fa, fa, MOD)
        /\ OutVal = (2 * AVal) % ModVal

\* C9 witness: a mul_pow2<K> with K >= 2 whose operand had its top bit set.
C9_Witness ==
    /\ fop = "mul_pow2"
    /\ fk >= 2
    /\ TopBit(fa)
    /\ OutVal = ((2 ^ fk) * AVal) % ModVal

\* The modulus leaves a spare top bit: M < 2^(N*W - 1).
SpareTopBit == ModVal < 2 ^ (TotalBits - 1)

\* C10: for the carry-free variant with a modulus that leaves a spare top bit,
\* every a in [0, M) and every K >= 1, mul_pow2<K>(a) equals 2^K * a mod M.
C10_CarryFreeMulPow2 ==
    (fop = "cf_mul_pow2" /\ fk >= 1 /\ SpareTopBit) =>
        OutVal = ((2 ^ fk) * AVal) % ModVal

\* The limb array can hold twice the modulus: 2 * M <= 2^(N*W).
CanHoldTwice == 2 * ModVal <= 2 ^ TotalBits

\* C11: whenever the limb array can hold twice the modulus, the carry-free
\* add, sub, neg and add_self return, for all a, b in [0, M), exactly the values
\* of the carry-checked ModAddSub operations.
C11_CarryFreeAgrees ==
    CanHoldTwice =>
        /\ fop \in {"cf_add", "cf_add_inplace"} =>
              fout = ModAddSub_add(fa, fb, MOD) /\ OutVal = (AVal + BVal) % ModVal
        /\ fop \in {"cf_sub", "cf_sub_inplace"} =>
              fout = ModAddSub_sub(fa, fb, MOD) /\ OutVal = (ModVal + AVal - BVal) % ModVal
        /\ fop = "cf_neg" =>
              fout = ModAddSub_neg(fa, MOD) /\ OutVal = (ModVal - AVal) % ModVal
        /\ fop = "cf_add_self" =>
              fout = ModAddSub_add_self(fa, MOD) /\ OutVal = (2 * AVal) % ModVal

\* C11 witness: a carry-free add under the largest modulus the array can hold
\* twice (2 * M = 2^(N*W)) whose raw sum had to be reduced.
C11_Witness ==
    /\ fop = "cf_add"
    /\ 2 * ModVal = 2 ^ TotalBits
    /\ AVal + BVal > ModVal
    /\ OutVal = AVal + BVal - ModVal

\* --------------------------------------------- big integers without a modulus

\* Any two N-limb big integers.
BigInit ==
    /\ MOD = ZeroSeq
    /\ fa \in LimbSeqs
    /\ fb \in LimbSeqs
    /\ fk = 0
    /\ fop = "none"
    /\ fout = ZeroSeq
    /\ fflag = FALSE
    /\ CurveIdle
    /\ SolverIdle

\* One call of add or sub: the value is left in the output operand and the
\* flag is returned.
BigApply(op, val, flag) ==
    /\ fop = "none"
    /\ fop' = op
    /\ fout' = val
    /\ fflag' = flag
    /\ UNCHANGED <<MOD, fa, fb, fk, curveVars, solverVars>>

DoBigAdd == BigApply("big_add", BigInt_add(fa, fb).val, BigInt_add(fa, fb).carry)
DoBigAddInplace == BigApply("big_add_inplace", BigInt_add(fa, fb).val, BigInt_add(fa, fb).carry)
DoBigSub == BigApply("big_sub", BigInt_sub(fa, fb).val, BigInt_sub(fa, fb).borrow)
DoBigSubInplace == BigApply("big_sub_inplace", BigInt_sub(fa, fb).val, BigInt_sub(fa, fb).borrow)

BigNext ==
    \/ DoBigAdd
    \/ DoBigAddInplace
    \/ DoBigSub
    \/ DoBigSubInplace

SpecBigint == BigInit /\ [][BigNext]_vars

\* C20: add leaves (a + b) mod 2^(N*W) and returns the carry out of the top
\* limb (true iff a + b >= 2^(N*W)); sub leaves (a - b) mod 2^(N*W) and returns
\* the borrow (true iff a < b); the in-place forms give the same value and flag.
C20_BigIntAddSub ==
    /\ fop \in {"big_add", "big_add_inplace"} =>
          /\ OutVal = (AVal + BVal) % (2 ^ TotalBits)
          /\ fflag <=> (AVal + BVal >= 2 ^ TotalBits)
    /\ fop \in {"big_sub", "big_sub_inplace"} =>
          /\ OutVal = (2 ^ TotalBits + AVal - BVal) % (2 ^ TotalBits)
          /\ fflag <=> (AVal < BVal)

\* C20 witness: an add whose carry crossed from limb 0 into the top limb and
\* out of it.
C20_Witness ==
    /\ fop = "big_add"
    /\ fa[1] + fb[1] >= LimbBase
    /\ fflag
    /\ OutVal = AVal + BVal - 2 ^ TotalBits

\* -------------------------------------------- scalars and points of the solvers

\* S: the add group of scalars modulo the group order, on limb sequences.
Scalars == 0 .. (Order - 1)
OrderSeq == FromValue(Order)

\* S::add(x, y) in place, S::sub(x, y) in place and S::sub(x, y, z)
S_add(s, t) == Value(ModAddSub_add_inplace(FromValue(s), FromValue(t), OrderSeq))
S_sub(s, t) == Value(ModAddSub_sub_inplace(FromValue(s), FromValue(t), OrderSeq))
S_sub3(s, t) == Value(ModAddSub_sub(FromValue(s), FromValue(t), OrderSeq))

RECURSIVE most_significant_bit(_)
\* 1-based position of the highest set bit, 0 for zero.
most_significant_bit(n) == IF n = 0 THEN 0 ELSE 1 + most_significant_bit(n \div 2)

\* set_pow2(e): the value becomes 2^e.
set_pow2(e) == 2 ^ e

\* S::sample_inclusive(x, lower, upper, rng): any value of [lower, upper].
sample_inclusive(lo, hi) == lo .. hi

\* rng.sample(ri): any index of [0, ri].
rng_sample(ri) == 0 .. ri

\* P: a cyclic group of `Order` elements written additively; 0 is the point at
\* infinity and [k]p is k * p.
Points == 0 .. (Order - 1)
P_mul(k, p) == (k * p) % Order
P_add(p, q) == (p + q) % Order
P_eq(p, q) == p = q

\* What sl[i] and pl[i] may hold when i is outside the jump table.
JunkScalars == {s \in Scalars : s < JunkN}
JunkPoints == {p \in Points : p < JunkN}

\* ------------------------------------------------------------ the jump table

\* utils::swap of the entries at 0-based positions i and j.
Swap(s, i, j) == [s EXCEPT ![i + 1] = s[j + 1], ![j + 1] = s[i + 1]]

\* The random indices one shuffle draws: r[i + 1] = rng.sample(mm - 1 - i).
SampleSeqs(mm) == {r \in [1 .. mm -> 0 .. (mm - 1)] : \A i \in 1 .. mm : r[i] \in rng_sample(mm - i)}

RECURSIVE ShuffleFrom(_, _, _, _)
\* The second loop of the table construction, from iteration i on.
ShuffleFrom(s, i, r, mm) ==
    IF i >= mm THEN s
    ELSE ShuffleFrom(Swap(s, mm - 1 - i, r[i + 1]), i + 1, r, mm)

\* The jump scalars after the three loops: exponents 0 .. mm-1, shuffled with the
\* samples r, each replaced by its power of two.
JumpScalars(mm, r) ==
    LET e == ShuffleFrom([i \in 1 .. mm |-> i - 1], 0, r, mm)
    IN  [i \in 1 .. mm |-> set_pow2(e[i])]

\* The jump points: pl[i] = [sl[i]]g.
JumpPoints(s, gen) == [i \in 1 .. Len(s) |-> P_mul(s[i], gen)]

\* size_t m = x.most_significant_bit() - 1 with x = b - a.
TableLen(lo, hi) == most_significant_bit(S_sub3(hi, lo)) - 1

\* ---------------------------------------------- single threaded pollard_lambda

\* The add group's and the workers' variables while a solver runs.
FieldIdle ==
    /\ MOD = ZeroSeq /\ fa = ZeroSeq /\ fb = ZeroSeq
    /\ fk = 0 /\ fop = "idle" /\ fout = ZeroSeq /\ fflag = FALSE

WorkersIdle ==
    /\ traps = {} /\ x_lock = 0 /\ traps_lock = 0 /\ barrier = 0
    /\ shutdown = FALSE
    /\ wpc = <<>> /\ wx = <<>> /\ wu = <<>> /\ wj = <<>> /\ wit = <<>>
    /\ witer = <<>>
    /\ mpc = "idle"

\* The caller's arguments: a < b, a generator g, h = [x0]g with x0 in [a, b).
SolverInputs ==
    /\ a \in Scalars
    /\ b \in Scalars
    /\ a < b
    /\ g \in Points \ {0}
    /\ h \in {P_mul(x0, g) : x0 \in a .. (b - 1)}
    /\ bound \in 0 .. MaxBound

StInit ==
    /\ SolverInputs
    /\ x = 0 /\ sl = <<>> /\ pl = <<>> /\ m = 0
    /\ pc = "table" /\ u = 0 /\ v = 0 /\ d = 0 /\ idx = 0
    /\ writes = 0 /\ crashed = FALSE
    /\ FieldIdle
    /\ CurveIdle
    /\ WorkersIdle

stFrame == <<fieldVars, curveVars, inVars, sharedVars, workerVars, writes>>

\* Lines 43-57: m and the jump table of this retry.
StJumpTable ==
    /\ pc = "table"
    /\ x' = S_sub3(b, a)
    /\ m' = TableLen(a, b)
    /\ \E r \in SampleSeqs(m') :
          /\ sl' = JumpScalars(m', r)
          /\ pl' = JumpPoints(sl', g)
    /\ pc' = "tame_init"
    /\ UNCHANGED <<u, v, d, idx, crashed, stFrame>>

\* Lines 59-60: the tame walk starts at a random scalar of [a, b].
StTameInit ==
    /\ pc = "tame_init"
    /\ \E s \in sample_inclusive(a, b) :
          /\ x' = s
          /\ u' = P_mul(s, g)
    /\ idx' = 0
    /\ pc' = "tame"
    /\ UNCHANGED <<tableVars, v, d, crashed, stFrame>>

\* Lines 62-65: one jump of the tame walk; the index is limb 0 of the point's x
\* coordinate modulo m, any residue.
StTameStep ==
    /\ pc = "tame"
    /\ idx < bound
    /\ m > 0
    /\ \E i \in 1 .. m :
          /\ x' = S_add(x, sl[i])
          /\ u' = P_add(u, pl[i])
    /\ idx' = S_add(idx, 1)
    /\ UNCHANGED <<tableVars, pc, v, d, crashed, stFrame>>

\* Line 62 with m = 0: the remainder by zero is undefined. The division traps and
\* the process is killed.
StTameTrap ==
    /\ pc = "tame"
    /\ idx < bound
    /\ m = 0
    /\ crashed' = TRUE
    /\ pc' = "crashed"
    /\ UNCHANGED <<x, tableVars, u, v, d, idx, stFrame>>

\* Lines 62-65 with m = 0 where the division does not trap: the index is
\* outside the empty jump table and sl[i], pl[i] are whatever the memory holds.
StTameWild ==
    /\ pc = "tame"
    /\ idx < bound
    /\ m = 0
    /\ \E s \in JunkScalars, p \in JunkPoints :
          /\ x' = S_add(x, s)
          /\ u' = P_add(u, p)
    /\ idx' = S_add(idx, 1)
    /\ UNCHANGED <<tableVars, pc, v, d, crashed, stFrame>>

\* Line 61: the tame walk has made `bound` jumps.
StTameDone ==
    /\ pc = "tame"
    /\ ~(idx < bound)
    /\ pc' = "wild_init"
    /\ UNCHANGED <<x, tableVars, u, v, d, idx, crashed, stFrame>>

\* Lines 68-69: the wild walk starts at h with d = 0.
StWildInit ==
    /\ pc = "wild_init"
    /\ d' = 0
    /\ v' = h
    /\ idx' = 0
    /\ pc' = "wild"
    /\ UNCHANGED <<x, tableVars, u, crashed, stFrame>>

\* Lines 71-74: the collision check; x = x - d and return.
StWildReturn ==
    /\ pc = "wild"
    /\ idx < bound
    /\ P_eq(u, v)
    /\ x' = S_sub(x, d)
    /\ pc' = "returned"
    /\ UNCHANGED <<tableVars, u, v, d, idx, crashed, stFrame>>

\* Lines 75-78: one jump of the wild walk.
StWildStep ==
    /\ pc = "wild"
    /\ idx < bound
    /\ ~P_eq(u, v)
    /\ m > 0
    /\ \E i \in 1 .. m :
          /\ d' = S_add(d, sl[i])
          /\ v' = P_add(v, pl[i])
    /\ idx' = S_add(idx, 1)
    /\ UNCHANGED <<x, tableVars, pc, u, crashed, stFrame>>

\* Line 75 with m = 0: the division traps.
StWildTrap ==
    /\ pc = "wild"
    /\ idx < bound
    /\ ~P_eq(u, v)
    /\ m = 0
    /\ crashed' = TRUE
    /\ pc' = "crashed"
    /\ UNCHANGED <<x, tableVars, u, v, d, idx, stFrame>>

\* Lines 75-78 with m = 0 where the division does not trap.
StWildWild ==
    /\ pc = "wild"
    /\ idx < bound
    /\ ~P_eq(u, v)
    /\ m = 0
    /\ \E s \in JunkScalars, p \in JunkPoints :
          /\ d' = S_add(d, s)
          /\ v' = P_add(v, p)
    /\ idx' = S_add(idx, 1)
    /\ UNCHANGED <<x, tableVars, pc, u, crashed, stFrame>>

\* Lines 70, 80: no collision within `bound` jumps, retry with a fresh table.
StRetry ==
    /\ pc = "wild"
    /\ ~(idx < bound)
    /\ pc' = "table"
    /\ UNCHANGED <<x, tableVars, u, v, d, idx, crashed, stFrame>>

StNext ==
    \/ StJumpTable
    \/ StTameInit
    \/ StTameStep
    \/ StTameTrap
    \/ StTameWild
    \/ StTameDone
    \/ StWildInit
    \/ StWildReturn
    \/ StWildStep
    \/ StWildTrap
    \/ StWildWild
    \/ StRetry

SpecSingle == StInit /\ [][StNext]_vars

\* C1: whenever the single threaded solver returns, the output x = x_T - d
\* satisfies [x]g = h.
C1_ReturnsDiscreteLog ==
    pc = "returned" => P_mul(x, g) = h

\* With a jump table of at least one entry (b - a >= 2) the returned x does
\* satisfy [x]g = h.
StReturnsDiscreteLogNonEmptyTable ==
    (pc = "returned" /\ m > 0) => P_mul(x, g) = h

\* ------------------------------------ the jump table construction, step by step

\* array()[0] of a scalar, and a scalar with array()[0] replaced.
Limb0(s) == s % LimbBase
SetLimb0(s, l) == (s \div LimbBase) * LimbBase + l

\* utils::swap(sl[i].array()[0], sl[j].array()[0]) that only copies sl[j] to sl[i].
SwapLimb0_Copy(s, i, j) ==
    [s EXCEPT ![i + 1] = SetLimb0(s[i + 1], Limb0(s[j + 1]))]

\* utils::swap(sl[i].array()[0], sl[j].array()[0]): the limbs 0 of the entries
\* at 0-based positions i and j change places, the other limbs stay.
SwapLimb0(s, i, j) ==
    [s EXCEPT ![i + 1] = SetLimb0(s[i + 1], Limb0(s[j + 1])),
              ![j + 1] = SetLimb0(s[j + 1], Limb0(s[i + 1]))]

\* The table lengths followed: an index below m fits in one limb, as it does for
\* the limb types of the library.
TableLens == {n \in 0 .. MaxTable : n <= LimbBase}

\* What an entry of the caller's array sl holds before the first construction.
FreshEntries == {0, 2 ^ TotalBits - 1}

\* A table of m entries with arbitrary content; nothing built yet.
TbInit ==
    /\ m \in TableLens
    /\ sl \in [1 .. m -> FreshEntries]
    /\ pl = [i \in 1 .. m |-> 0]
    /\ g = 1
    /\ idx = 0
    /\ pc = "fill"
    /\ a = 0 /\ b = 0 /\ h = 0 /\ bound = 0
    /\ x = 0 /\ u = 0 /\ v = 0 /\ d = 0
    /\ writes = 0 /\ crashed = FALSE
    /\ FieldIdle
    /\ CurveIdle
    /\ WorkersIdle

tbFrame == <<fieldVars, curveVars, inVars, x, m, u, v, d, sharedVars, workerVars, histVars>>

\* Lines 46-48, 139-141: sl[i].array()[0] = i for every i < m.
TbFill ==
    /\ pc = "fill"
    /\ sl' = [i \in 1 .. m |-> SetLimb0(sl[i], i - 1)]
    /\ idx' = 0
    /\ pc' = "shuffle"
    /\ UNCHANGED <<pl, tbFrame>>

\* Lines 49-52, 142-146: one iteration of the shuffle, ri = m - 1 - i.
TbSwap ==
    /\ pc = "shuffle"
    /\ idx < m
    /\ \E k \in rng_sample(m - 1 - idx) :
          sl' = SwapLimb0(sl, m - 1 - idx, k)
    /\ idx' = idx + 1
    /\ UNCHANGED <<pl, pc, tbFrame>>

\* Lines 53-57, 147-152: e = sl[i].array()[0], sl[i] = 2^e and pl[i] = [sl[i]]g
\* for every i < m.
TbPow2 ==
    /\ pc = "shuffle"
    /\ ~(idx < m)
    /\ sl' = [i \in 1 .. m |-> set_pow2(Limb0(sl[i]))]
    /\ pl' = JumpPoints(sl', g)
    /\ pc' = "built"
    /\ UNCHANGED <<idx, tbFrame>>

\* Lines 40, 80 and 136, 228: the next retry iteration builds the table again,
\* over the entries of this one.
TbRetry ==
    /\ pc = "built"
    /\ pc' = "fill"
    /\ UNCHANGED <<sl, pl, idx, tbFrame>>

TbNext ==
    \/ TbFill
    \/ TbSwap
    \/ TbPow2
    \/ TbRetry

SpecTable == TbInit /\ [][TbNext]_vars

\* Each of 2^0 .. 2^(mm-1) appears exactly once in s[0 .. mm-1].
IsPowerPermutation(s, mm) ==
    /\ Len(s) = mm
    /\ \A e \in 0 .. (mm - 1) : Cardinality({i \in 1 .. mm : s[i] = 2 ^ e}) = 1

\* C24: after the construction of the jump table, in the first and in every
\* retry iteration, each of 2^0 .. 2^(m-1) appears exactly once in s[0 .. m-1],
\* whatever indices the shuffle drew; the table is one of those the solvers
\* take, and pl[i] = [sl[i]]g.
C24_JumpTableIsPermutation ==
    pc = "built" =>
        /\ IsPowerPermutation(sl, m)
        /\ \E r \in SampleSeqs(m) : sl = JumpScalars(m, r)
        /\ pl = JumpPoints(sl, g)

\* C24 witness: a table of at least three entries has been built in an order
\* that moved both the first and the last exponent.
C24_Witness ==
    /\ pc = "built"
    /\ m >= 3
    /\ sl[1] # 1
    /\ sl[m] # 2 ^ (m - 1)
    /\ sl[2] = 1

\* The jump table of the single threaded solver is a permutation of the powers
\* of two once it is built.
StTableIsPermutation ==
    pc # "table" => IsPowerPermutation(sl, m)

\* C28: the walk invariant of the single threaded solver: after every step of
\* the tame walk U = [x_T]g, and after every step of the wild walk
\* V = h + [d]g, d starting at 0 (and U is still [x_T]g).
C28_WalkInvariant ==
    /\ pc \in {"tame", "wild_init", "wild"} => u = P_mul(x, g)
    /\ pc = "wild" => v = P_add(h, P_mul(d, g))

\* With a jump table of at least one entry the walk invariant holds: the scalar
\* advances by sl[i] exactly when the point advances by pl[i] = [sl[i]]g.
StWalkInvariantNonEmptyTable ==
    m > 0 =>
        /\ pc \in {"tame", "wild_init", "wild"} => u = P_mul(x, g)
        /\ pc = "wild" => v = P_add(h, P_mul(d, g))

\* C29: for every interval with a < b, b - a = 1 included, the jump table
\* length m = most_significant_bit(b - a) - 1 is at least 1, so no walk step
\* takes a remainder by zero or indexes an empty jump table.
C29_TableLenAtLeastOne ==
    /\ pc # "table" => m >= 1
    /\ ~(pc \in {"tame", "wild"} /\ idx < bound /\ m = 0)
    /\ ~crashed

\* For every interval with b - a >= 2 the jump table has at least one entry and
\* no walk step takes a remainder by zero.
StTableLenAtLeastOneWideInterval ==
    S_sub3(b, a) >= 2 => ((pc # "table" => m >= 1) /\ ~crashed)

\* ------------------------------------------- multithread_pollard_lambda: workers

\* Worker w of 1 .. worker_n has WorkerData::id = w - 1.
Workers == 1 .. WorkerN
\* data.traps.find(*u) == data.traps.end()
NoTrap == -1

\* it = data.traps.find(*u): the scalar stored under the key equal to p, if any.
traps_find(p) ==
    IF \E e \in traps : P_eq(e[1], p)
    THEN (CHOOSE e \in traps : P_eq(e[1], p))[2]
    ELSE NoTrap

\* data.traps.insert(std::make_pair(p, s)): no effect when the key is present.
traps_insert(p, s) ==
    IF \E e \in traps : P_eq(e[1], p) THEN traps ELSE traps \cup {<<p, s>>}

\* Where a worker blocks in pthread_barrier_wait.
Blocked(at) ==
    CASE at = "b1" -> "b1_wait"
      [] at = "b2" -> "b2_wait"
      [] at = "b3" -> "b3_wait"
      [] OTHER -> at

\* Where the last worker to arrive at the barrier continues.
AfterBarrier(at) ==
    CASE at = "b1" -> "tame_init"
      [] at = "b2" -> "wild_init"
      [] at = "b3" -> "check"
      [] OTHER -> at

\* Where a worker blocked at the barrier continues once released.
Released(at) ==
    CASE at = "b1_wait" -> "tame_init"
      [] at = "b2_wait" -> "wild_init"
      [] at = "b3_wait" -> "check"
      [] OTHER -> at

Goto(w, at) == wpc' = [wpc EXCEPT ![w] = at]

\* The caller's arguments of a multithreaded solve; the group is written as the
\* multiples of the generator it is called with, so g is the element 1.
MtInputs ==
    /\ a \in Scalars
    /\ b \in Scalars
    /\ a < b
    /\ g = 1
    /\ h \in {P_mul(x0, g) : x0 \in a .. (b - 1)}
    /\ bound \in 0 .. MtMaxBound

MtInit ==
    /\ MtInputs
    /\ x = 0 /\ sl = <<>> /\ pl = <<>> /\ m = 0
    /\ pc = "idle" /\ u = 0 /\ v = 0 /\ d = 0 /\ idx = 0
    /\ traps = {} /\ x_lock = 0 /\ traps_lock = 0 /\ barrier = 0
    /\ shutdown = FALSE
    /\ wpc = [w \in Workers |-> "unborn"]
    /\ wx = [w \in Workers |-> 0]
    /\ wu = [w \in Workers |-> 0]
    /\ wj = [w \in Workers |-> 0]
    /\ wit = [w \in Workers |-> NoTrap]
    /\ witer = [w \in Workers |-> 0]
    /\ mpc = "setup"
    /\ writes = 0 /\ crashed = FALSE
    /\ FieldIdle
    /\ CurveIdle

mtFrame == <<fieldVars, curveVars, inVars, stVars>>

\* Lines 243-253: x = b - a, m, and the SharedData constructor (empty trap map,
\* jump table of m entries, shutdown = false).
MtSetup ==
    /\ mpc = "setup"
    /\ x' = S_sub3(b, a)
    /\ m' = TableLen(a, b)
    /\ sl' = [i \in 1 .. m' |-> 0]
    /\ pl' = [i \in 1 .. m' |-> 0]
    /\ traps' = {}
    /\ shutdown' = FALSE
    /\ mpc' = "create"
    /\ UNCHANGED <<x_lock, traps_lock, barrier, wpc, wx, wu, wj, wit, witer, histVars, mtFrame>>

\* Lines 255-261: pthread_create of the next worker, in order of id.
MtCreate ==
    /\ mpc = "create"
    /\ ~crashed
    /\ \E w \in Workers :
          /\ wpc[w] = "unborn"
          /\ \A o \in Workers : o < w => wpc[o] # "unborn"
          /\ Goto(w, "table")
          /\ mpc' = IF w = WorkerN THEN "join" ELSE "create"
    /\ UNCHANGED <<x, tableVars, sharedVars, wx, wu, wj, wit, witer, histVars, mtFrame>>

\* Lines 263-265: pthread_join of every worker; the call returns after the last.
MtJoin ==
    /\ mpc = "join"
    /\ ~crashed
    /\ \A w \in Workers : wpc[w] = "done"
    /\ mpc' = "returned"
    /\ UNCHANGED <<x, tableVars, sharedVars, wpc, wx, wu, wj, wit, witer, histVars, mtFrame>>

\* Lines 138-156: worker 0 builds the jump table of this retry.
WJumpTable(w) ==
    /\ wpc[w] = "table"
    /\ ~crashed
    /\ w = 1
    /\ \E r \in SampleSeqs(m) :
          /\ sl' = JumpScalars(m, r)
          /\ pl' = JumpPoints(sl', g)
    /\ Goto(w, "b1")
    /\ UNCHANGED <<x, m, sharedVars, wx, wu, wj, wit, witer, mpc, histVars, mtFrame>>

\* Line 138 without the barrier of line 158: the other workers start their tame
\* walk at once.
WSkipTable_NoBarrier(w) ==
    /\ wpc[w] = "table"
    /\ ~crashed
    /\ w # 1
    /\ Goto(w, "tame_init")
    /\ UNCHANGED <<x, tableVars, sharedVars, wx, wu, wj, wit, witer, mpc, histVars, mtFrame>>

\* Line 138: the other workers go straight to the barrier.
WSkipTable(w) ==
    /\ wpc[w] = "table"
    /\ ~crashed
    /\ w # 1
    /\ Goto(w, "b1")
    /\ UNCHANGED <<x, tableVars, sharedVars, wx, wu, wj, wit, witer, mpc, histVars, mtFrame>>

\* Lines 158, 183, 215: pthread_barrier_wait. The worker_n-th arrival releases
\* every waiting worker and resets the count; the others block.
WBarrier(w) ==
    /\ wpc[w] \in {"b1", "b2", "b3"}
    /\ ~crashed
    /\ IF barrier + 1 < WorkerN
       THEN /\ barrier' = barrier + 1
            /\ Goto(w, Blocked(wpc[w]))
       ELSE /\ barrier' = 0
            /\ wpc' = [o \in Workers |->
                         IF o = w THEN AfterBarrier(wpc[w])
                         ELSE Released(wpc[o])]
    /\ UNCHANGED <<x, tableVars, traps, x_lock, traps_lock, shutdown, wx, wu, wj, wit, witer, mpc, histVars, mtFrame>>

\* Lines 161-162: the tame walk starts at a random scalar of [a, b].
WTameInit(w) ==
    /\ wpc[w] = "tame_init"
    /\ ~crashed
    /\ \E s \in sample_inclusive(a, b) :
          /\ wx' = [wx EXCEPT ![w] = s]
          /\ wu' = [wu EXCEPT ![w] = P_mul(s, g)]
    /\ wj' = [wj EXCEPT ![w] = 0]
    /\ Goto(w, "tame")
    /\ UNCHANGED <<x, tableVars, sharedVars, wit, witer, mpc, histVars, mtFrame>>

\* Lines 164-167: one jump of the tame walk.
WTameStep(w) ==
    /\ wpc[w] = "tame"
    /\ ~crashed
    /\ wj[w] < bound
    /\ m > 0
    /\ \E i \in 1 .. m :
          /\ wx' = [wx EXCEPT ![w] = S_add(wx[w], sl[i])]
          /\ wu' = [wu EXCEPT ![w] = P_add(wu[w], pl[i])]
    /\ wj' = [wj EXCEPT ![w] = S_add(wj[w], 1)]
    /\ UNCHANGED <<x, tableVars, sharedVars, wpc, wit, witer, mpc, histVars, mtFrame>>

\* Line 164 with m = 0: the remainder by zero traps and kills the process.
WTameTrap(w) ==
    /\ wpc[w] = "tame"
    /\ ~crashed
    /\ wj[w] < bound
    /\ m = 0
    /\ crashed' = TRUE
    /\ UNCHANGED <<x, tableVars, sharedVars, workerVars, writes, mtFrame>>

\* Lines 164-167 with m = 0 where the division does not trap: sl[i] and pl[i]
\* are read outside the empty jump table.
WTameWild(w) ==
    /\ wpc[w] = "tame"
    /\ ~crashed
    /\ wj[w] < bound
    /\ m = 0
    /\ \E s \in JunkScalars, p \in JunkPoints :
          /\ wx' = [wx EXCEPT ![w] = S_add(wx[w], s)]
          /\ wu' = [wu EXCEPT ![w] = P_add(wu[w], p)]
    /\ wj' = [wj EXCEPT ![w] = S_add(wj[w], 1)]
    /\ UNCHANGED <<x, tableVars, sharedVars, wpc, wit, witer, mpc, histVars, mtFrame>>

\* Line 163: the tame walk has made `bound` jumps.
WTameDone(w) ==
    /\ wpc[w] = "tame"
    /\ ~crashed
    /\ ~(wj[w] < bound)
    /\ Goto(w, "trap_lock")
    /\ UNCHANGED <<x, tableVars, sharedVars, wx, wu, wj, wit, witer, mpc, histVars, mtFrame>>

\* Line 176: pthread_mutex_lock(&data.traps_lock)
WTrapLock(w) ==
    /\ wpc[w] = "trap_lock"
    /\ ~crashed
    /\ traps_lock = 0
    /\ traps_lock' = w
    /\ Goto(w, "trap_insert")
    /\ UNCHANGED <<x, tableVars, traps, x_lock, barrier, shutdown, wx, wu, wj, wit, witer, mpc, histVars, mtFrame>>

\* Line 177: the end point of the tame walk becomes a trap.
WTrapInsert(w) ==
    /\ wpc[w] = "trap_insert"
    /\ ~crashed
    /\ traps' = traps_insert(wu[w], wx[w])
    /\ Goto(w, "trap_unlock")
    /\ UNCHANGED <<x, tableVars, x_lock, traps_lock, barrier, shutdown, wx, wu, wj, wit, witer, mpc, histVars, mtFrame>>

\* Line 178 without the barrier of line 183: the wild walk starts at once.
WTrapUnlock_NoBarrier(w) ==
    /\ wpc[w] = "trap_unlock"
    /\ ~crashed
    /\ traps_lock' = 0
    /\ Goto(w, "wild_init")
    /\ UNCHANGED <<x, tableVars, traps, x_lock, barrier, shutdown, wx, wu, wj, wit, witer, mpc, histVars, mtFrame>>

\* Line 178: pthread_mutex_unlock(&data.traps_lock)
WTrapUnlock(w) ==
    /\ wpc[w] = "trap_unlock"
    /\ ~crashed
    /\ traps_lock' = 0
    /\ Goto(w, "b2")
    /\ UNCHANGED <<x, tableVars, traps, x_lock, barrier, shutdown, wx, wu, wj, wit, witer, mpc, histVars, mtFrame>>

\* Lines 186-188: the wild walk starts at h + [x]g for a random x of [a, b].
WWildInit(w) ==
    /\ wpc[w] = "wild_init"
    /\ ~crashed
    /\ \E s \in sample_inclusive(a, b) :
          /\ wx' = [wx EXCEPT ![w] = s]
          /\ wu' = [wu EXCEPT ![w] = P_add(h, P_mul(s, g))]
    /\ wj' = [wj EXCEPT ![w] = 0]
    /\ Goto(w, "wild")
    /\ UNCHANGED <<x, tableVars, sharedVars, wit, witer, mpc, histVars, mtFrame>>

\* Line 189: the wild walk has made `bound` jumps.
WWildDone(w) ==
    /\ wpc[w] = "wild"
    /\ ~crashed
    /\ ~(wj[w] < bound)
    /\ Goto(w, "b3")
    /\ UNCHANGED <<x, tableVars, sharedVars, wx, wu, wj, wit, witer, mpc, histVars, mtFrame>>

\* Lines 190-192: the worker reads shutdown, without a lock, as true and breaks.
WWildShutdown(w) ==
    /\ wpc[w] = "wild"
    /\ ~crashed
    /\ wj[w] < bound
    /\ shutdown
    /\ Goto(w, "b3")
    /\ UNCHANGED <<x, tableVars, sharedVars, wx, wu, wj, wit, witer, mpc, histVars, mtFrame>>

\* Line 190: the worker reads shutdown as false. The read races with the store
\* of line 198, so it may also return a stale false after the store.
WWildGoOn(w) ==
    /\ wpc[w] = "wild"
    /\ ~crashed
    /\ wj[w] < bound
    /\ Goto(w, "find")
    /\ UNCHANGED <<x, tableVars, sharedVars, wx, wu, wj, wit, witer, mpc, histVars, mtFrame>>

\* Lines 193-194: the probe of the trap map, a hit with another scalar.
WFindHit(w) ==
    /\ wpc[w] = "find"
    /\ ~crashed
    /\ traps_find(wu[w]) # NoTrap
    /\ traps_find(wu[w]) # wx[w]
    /\ wit' = [wit EXCEPT ![w] = traps_find(wu[w])]
    /\ Goto(w, "x_lock")
    /\ UNCHANGED <<x, tableVars, sharedVars, wx, wu, wj, witer, mpc, histVars, mtFrame>>

\* Lines 193-194: no trap at the point, or one with the worker's own scalar.
WFindMiss(w) ==
    /\ wpc[w] = "find"
    /\ ~crashed
    /\ (traps_find(wu[w]) = NoTrap \/ traps_find(wu[w]) = wx[w])
    /\ Goto(w, "jump")
    /\ UNCHANGED <<x, tableVars, sharedVars, wx, wu, wj, wit, witer, mpc, histVars, mtFrame>>

\* Line 195: pthread_mutex_lock(&data.x_lock)
WXLock(w) ==
    /\ wpc[w] = "x_lock"
    /\ ~crashed
    /\ x_lock = 0
    /\ x_lock' = w
    /\ Goto(w, "x_crit")
    /\ UNCHANGED <<x, tableVars, traps, traps_lock, barrier, shutdown, wx, wu, wj, wit, witer, mpc, histVars, mtFrame>>

\* Lines 196-199 without the test of line 196: every finder stores.
WXCrit_NoRecheck(w) ==
    /\ wpc[w] = "x_crit"
    /\ ~crashed
    /\ x' = S_sub3(wit[w], wx[w])
    /\ shutdown' = TRUE
    /\ writes' = writes + 1
    /\ Goto(w, "x_unlock")
    /\ UNCHANGED <<tableVars, traps, x_lock, traps_lock, barrier, wx, wu, wj, wit, witer, mpc, crashed, mtFrame>>

\* Lines 196-199: under x_lock, the first finder stores x = it->second - x and
\* sets shutdown; a later finder sees shutdown and stores nothing.
WXCrit(w) ==
    /\ wpc[w] = "x_crit"
    /\ ~crashed
    /\ IF ~shutdown
       THEN /\ x' = S_sub3(wit[w], wx[w])
            /\ shutdown' = TRUE
            /\ writes' = writes + 1
       ELSE UNCHANGED <<x, shutdown, writes>>
    /\ Goto(w, "x_unlock")
    /\ UNCHANGED <<tableVars, traps, x_lock, traps_lock, barrier, wx, wu, wj, wit, witer, mpc, crashed, mtFrame>>

\* Line 200 followed by a reset of the flag.
WXUnlock_ClearsShutdown(w) ==
    /\ wpc[w] = "x_unlock"
    /\ ~crashed
    /\ x_lock' = 0
    /\ shutdown' = FALSE
    /\ Goto(w, "b3")
    /\ UNCHANGED <<x, tableVars, traps, traps_lock, barrier, wx, wu, wj, wit, witer, mpc, histVars, mtFrame>>

\* Lines 200-201: pthread_mutex_unlock(&data.x_lock) and break.
WXUnlock(w) ==
    /\ wpc[w] = "x_unlock"
    /\ ~crashed
    /\ x_lock' = 0
    /\ Goto(w, "b3")
    /\ UNCHANGED <<x, tableVars, traps, traps_lock, barrier, shutdown, wx, wu, wj, wit, witer, mpc, histVars, mtFrame>>

\* Lines 203-206 followed by the probe of line 193 without the test of line 190.
WJump_NoRecheck(w) ==
    /\ wpc[w] = "jump"
    /\ ~crashed
    /\ m > 0
    /\ \E i \in 1 .. m :
          /\ wx' = [wx EXCEPT ![w] = S_add(wx[w], sl[i])]
          /\ wu' = [wu EXCEPT ![w] = P_add(wu[w], pl[i])]
    /\ wj' = [wj EXCEPT ![w] = S_add(wj[w], 1)]
    /\ Goto(w, "find")
    /\ UNCHANGED <<x, tableVars, sharedVars, wit, witer, mpc, histVars, mtFrame>>

\* Lines 203-206: one jump of the wild walk.
WJump(w) ==
    /\ wpc[w] = "jump"
    /\ ~crashed
    /\ m > 0
    /\ \E i \in 1 .. m :
          /\ wx' = [wx EXCEPT ![w] = S_add(wx[w], sl[i])]
          /\ wu' = [wu EXCEPT ![w] = P_add(wu[w], pl[i])]
    /\ wj' = [wj EXCEPT ![w] = S_add(wj[w], 1)]
    /\ Goto(w, "wild")
    /\ UNCHANGED <<x, tableVars, sharedVars, wit, witer, mpc, histVars, mtFrame>>

\* Line 203 with m = 0: the remainder by zero traps and kills the process.
WJumpTrap(w) ==
    /\ wpc[w] = "jump"
    /\ ~crashed
    /\ m = 0
    /\ crashed' = TRUE
    /\ UNCHANGED <<x, tableVars, sharedVars, workerVars, writes, mtFrame>>

\* Lines 203-206 with m = 0 where the division does not trap.
WJumpWild(w) ==
    /\ wpc[w] = "jump"
    /\ ~crashed
    /\ m = 0
    /\ \E s \in JunkScalars, p \in JunkPoints :
          /\ wx' = [wx EXCEPT ![w] = S_add(wx[w], s)]
          /\ wu' = [wu EXCEPT ![w] = P_add(wu[w], p)]
    /\ wj' = [wj EXCEPT ![w] = S_add(wj[w], 1)]
    /\ Goto(w, "wild")
    /\ UNCHANGED <<x, tableVars, sharedVars, wit, witer, mpc, histVars, mtFrame>>

\* Lines 218-224 without the test of line 218: the worker returns after the
\* third barrier whatever shutdown holds.
WCheckExit_Always(w) ==
    /\ wpc[w] = "check"
    /\ ~crashed
    /\ Goto(w, "done")
    /\ UNCHANGED <<x, tableVars, sharedVars, wx, wu, wj, wit, witer, mpc, histVars, mtFrame>>

\* Lines 218-224: after the third barrier, return when shutdown is set.
WCheckExit(w) ==
    /\ wpc[w] = "check"
    /\ ~crashed
    /\ shutdown
    /\ Goto(w, "done")
    /\ UNCHANGED <<x, tableVars, sharedVars, wx, wu, wj, wit, witer, mpc, histVars, mtFrame>>

\* Lines 218, 228: no collision found in this iteration, retry.
WCheckRetry(w) ==
    /\ wpc[w] = "check"
    /\ ~crashed
    /\ ~shutdown
    /\ witer[w] < MaxRetry
    /\ witer' = [witer EXCEPT ![w] = witer[w] + 1]
    /\ Goto(w, "table")
    /\ UNCHANGED <<x, tableVars, sharedVars, wx, wu, wj, wit, mpc, histVars, mtFrame>>

WorkerStep(w) ==
    \/ WJumpTable(w)
    \/ WSkipTable(w)
    \/ WBarrier(w)
    \/ WTameInit(w)
    \/ WTameStep(w)
    \/ WTameTrap(w)
    \/ WTameWild(w)
    \/ WTameDone(w)
    \/ WTrapLock(w)
    \/ WTrapInsert(w)
    \/ WTrapUnlock(w)
    \/ WWildInit(w)
    \/ WWildDone(w)
    \/ WWildShutdown(w)
    \/ WWildGoOn(w)
    \/ WFindHit(w)
    \/ WFindMiss(w)
    \/ WXLock(w)
    \/ WXCrit(w)
    \/ WXUnlock(w)
    \/ WJump(w)
    \/ WJumpTrap(w)
    \/ WJumpWild(w)
    \/ WCheckExit(w)
    \/ WCheckRetry(w)

MtNext ==
    \/ MtSetup
    \/ MtCreate
    \/ MtJoin
    \/ \E w \in Workers : WorkerStep(w)

SpecMulti == MtInit /\ [][MtNext]_vars

\* Every worker has returned and the call has returned to its caller.
AllReturned == mpc = "returned" /\ \A w \in Workers : wpc[w] = "done"

\* C2: whenever a worker has written the result cell, the value written,
\* x = x_tame - x_wild, satisfies [x]g = h, and so does the value found in x
\* after the call returns.
C2_WrittenIsDiscreteLog ==
    (writes > 0 \/ mpc = "returned") => P_mul(x, g) = h

\* With a jump table of at least one entry (b - a >= 2) the written value does
\* satisfy [x]g = h.
MtWrittenIsDiscreteLogNonEmptyTable ==
    ((writes > 0 \/ mpc = "returned") /\ m > 0) => P_mul(x, g) = h

\* C3: at most one worker writes the result x; the write is made while holding
\* x_lock, in the critical section that sets shutdown, and every other worker
\* that found a trap sees shutdown under the lock and writes nothing.
C3_AtMostOneWrite ==
    /\ writes <= 1
    /\ shutdown <=> writes = 1
    /\ \A w \in Workers : wpc[w] \in {"x_crit", "x_unlock"} => x_lock = w
    /\ \A w \in Workers : wpc[w] = "x_unlock" => writes = 1

\* C3 witness: both of two workers found a trap and went through the critical
\* section, and the result was written once.
C3_Witness ==
    /\ writes = 1
    /\ \E w1 \in Workers, w2 \in Workers :
          /\ w1 # w2
          /\ wit[w1] # NoTrap /\ wpc[w1] = "b3_wait"
          /\ wit[w2] # NoTrap /\ wpc[w2] = "x_unlock"
          /\ witer[w1] = witer[w2]

MtShutdownLeadsToReturnUnlessTrapped ==
    (shutdown /\ ~crashed) => (AllReturned \/ ENABLED MtNext)

\* C5: the shutdown flag is monotonic over a whole solve: its only transition
\* is false -> true, in no step does it go from true back to false.
C5_ShutdownMonotonic == [][shutdown => shutdown']_vars

\* C5 witness: shutdown was set in a retry iteration and the call has returned
\* with the flag still set.
C5_Witness ==
    /\ shutdown
    /\ mpc = "returned"
    /\ \A w \in Workers : witer[w] >= 1

\* C21: the trap map is guarded by traps_lock for insertion and for lookup: a
\* worker that inserts into traps (line 177) or calls find on traps (line 193)
\* holds traps_lock while it does.
C21_TrapsGuardedByLock ==
    \A w \in Workers : wpc[w] \in {"trap_insert", "find"} => traps_lock = w

\* The insertion of line 177 is made under traps_lock, and the lock is held
\* nowhere else.
MtInsertUnderTrapsLock ==
    \A w \in Workers : wpc[w] \in {"trap_insert", "trap_unlock"} <=> traps_lock = w

\* The jump table of the multithreaded solver is a permutation of the powers of
\* two from worker 0's first construction on.
MtTableIsPermutation ==
    (wpc[1] \notin {"unborn"} /\ ~(wpc[1] = "table" /\ witer[1] = 0)) =>
        IsPowerPermutation(sl, m)

\* Where a worker is between the lock and the unlock around the insertion
\* (lines 176-178).
InsertPcs == {"trap_lock", "trap_insert", "trap_unlock"}

\* Where a worker is inside the loop of the wild walk (lines 189-213): the find
\* and the use of the iterator it returned.
LookupPcs == {"wild", "find", "x_lock", "x_crit", "x_unlock", "jump"}

\* Where a worker is between barrier #2 and barrier #3 (lines 183-215).
AfterBarrier2 == LookupPcs \cup {"wild_init", "b3", "b3_wait"}

\* Where a worker is between barrier #3 of one retry iteration and barrier #1
\* of the next (lines 215-228, 136-158), or not yet created.
BeforeBarrier1 == {"unborn", "check", "table", "b1", "b1_wait"}

\* C22: no lookup of the trap map overlaps an insertion: while a worker is in
\* its wild walk, every worker is past barrier #2 of the same retry iteration
\* (its insertion is complete) and none is at the insertion of the next one.
C22_LookupNeverOverlapsInsert ==
    \A w1 \in Workers :
        wpc[w1] \in LookupPcs =>
            \A w2 \in Workers :
                /\ wpc[w2] \in AfterBarrier2
                /\ wpc[w2] \notin InsertPcs
                /\ witer[w2] = witer[w1]

\* C22 witness: in a retry iteration a worker probes the trap map, which holds
\* a trap, while the other worker has not started its wild walk yet.
C22_Witness ==
    \E w1 \in Workers, w2 \in Workers :
        /\ wpc[w1] = "find"
        /\ wpc[w2] = "wild_init"
        /\ witer[w1] = 1
        /\ traps # {}

\* C23: the jump table is written only by worker 0 (and by the constructor of
\* SharedData before any worker exists), and while worker 0 builds it every
\* other worker is before barrier #1 of that retry iteration or has just left
\* barrier #3 of the previous one: no tame or wild walk is reading it.
C23_JumpTableWriteExclusive ==
    /\ [](wpc[1] = "table" => \A w \in Workers : wpc[w] \in BeforeBarrier1)
    /\ [][(sl' # sl \/ pl' # pl) =>
             (mpc = "setup" \/ (wpc[1] = "table" /\ wpc'[1] = "b1"))]_vars

\* C23 witness: worker 0 rebuilds the jump table in a retry iteration while the
\* other worker, which read the table in the previous iteration, is held at
\* barrier #1.
C23_Witness ==
    /\ wpc[1] = "table"
    /\ witer[1] = 1
    /\ m > 0
    /\ \E w \in Workers : w # 1 /\ wpc[w] = "b1_wait" /\ witer[w] = 1

\* Where a worker is once it has left the wild loop (lines 201, 215-224).
ExitPcs == {"x_unlock", "b3", "b3_wait", "check", "done"}

BarrierPcs == {"b1", "b1_wait", "b2", "b2_wait", "b3", "b3_wait"}
BarrierWaitPcs == {"b1_wait", "b2_wait", "b3_wait"}

\* The retries followed are used up: every worker is at line 218 of the last
\* iteration followed, with shutdown false.
RetryCapped ==
    \A w \in Workers : wpc[w] = "check" /\ witer[w] = MaxRetry /\ ~shutdown

\* C26: the multithreaded solver is deadlock-free and phase-consistent. Two
\* workers differ by at most one retry iteration, and only while the one behind
\* is at the test after barrier #3 and the one ahead has not passed barrier #1,
\* with shutdown false for both; a worker has returned only with shutdown set
\* and all others at that test or returned; the workers blocked at a barrier
\* are at the same one, are counted by it, and no worker has returned while one
\* is at a barrier; a lock is held only inside its critical section, never at
\* a barrier nor while taking the other lock; and unless the process was killed
\* some step is possible until all workers and the call have returned.
C26_PhaseConsistentNoDeadlock ==
    /\ \A w1 \in Workers, w2 \in Workers :
           witer[w1] < witer[w2] =>
               /\ witer[w2] = witer[w1] + 1
               /\ wpc[w1] = "check"
               /\ wpc[w2] \in {"table", "b1", "b1_wait"}
               /\ ~shutdown
    /\ \A w \in Workers :
           wpc[w] = "done" =>
               /\ shutdown
               /\ \A o \in Workers : wpc[o] \in {"check", "done"}
    /\ \A w \in Workers :
           wpc[w] \in BarrierPcs => \A o \in Workers : wpc[o] # "done"
    /\ \A w1 \in Workers, w2 \in Workers :
           (wpc[w1] \in BarrierWaitPcs /\ wpc[w2] \in BarrierWaitPcs) =>
               (wpc[w1] = wpc[w2] /\ witer[w1] = witer[w2])
    /\ barrier = Cardinality({w \in Workers : wpc[w] \in BarrierWaitPcs})
    /\ barrier < WorkerN
    /\ \A w \in Workers : x_lock = w <=> wpc[w] \in {"x_crit", "x_unlock"}
    /\ \A w \in Workers : traps_lock = w <=> wpc[w] \in {"trap_insert", "trap_unlock"}
    /\ x_lock \in Workers \cup {0}
    /\ traps_lock \in Workers \cup {0}
    /\ (~crashed /\ ~AllReturned /\ ~RetryCapped) => ENABLED MtNext

\* C26 witness: after an iteration without a collision one worker is already
\* blocked at barrier #1 of the retry while the other is still at the test
\* after barrier #3, and shutdown is false.
C26_Witness ==
    \E w1 \in Workers, w2 \in Workers :
        /\ witer[w1] = 0 /\ wpc[w1] = "check"
        /\ witer[w2] = 1 /\ wpc[w2] = "b1_wait"
        /\ ~shutdown
        /\ traps # {}

\* C27: the trap map only grows during a solve, is never cleared when the
\* jump table is rebuilt, every entry (U, s) in it satisfies U = [s]g, and a
\* wild walk that hit a trap, of this or of an earlier retry iteration, is about
\* to store an x with [x]g = h.
C27_TrapsOnlyGrowAndHold ==
    /\ [][traps \subseteq traps']_vars
    /\ [](\A e \in traps : e[1] = P_mul(e[2], g))
    /\ [](\A w \in Workers :
             wpc[w] \in {"x_lock", "x_crit"} =>
                 P_mul(S_sub3(wit[w], wx[w]), g) = h)

\* The trap map only grows: no step removes or replaces an entry, the steps of
\* a retry included.
MtTrapsOnlyGrow == [][traps \subseteq traps']_vars

\* With a jump table of at least one entry every trap (U, s) has U = [s]g and a
\* hit gives an x with [x]g = h; each walk keeps its invariant, U = [x]g on the
\* tame walk and u = h + [x]g on the wild walk.
MtTrapsHoldNonEmptyTable ==
    m > 0 =>
        /\ \A e \in traps : e[1] = P_mul(e[2], g)
        /\ \A w \in Workers :
              /\ wpc[w] \in {"x_lock", "x_crit"} =>
                    P_mul(S_sub3(wit[w], wx[w]), g) = h
              /\ wpc[w] \in {"tame", "trap_lock", "trap_insert"} =>
                    wu[w] = P_mul(wx[w], g)
              /\ wpc[w] \in {"wild", "find", "jump", "x_lock", "x_crit"} =>
                    wu[w] = P_add(h, P_mul(wx[w], g))

\* A hit on a trap of an earlier retry iteration happens: the worker's own trap
\* of this iteration is another one.
MtOldTrapHit ==
    \E w \in Workers :
        /\ wpc[w] = "x_crit"
        /\ witer[w] = 1
        /\ m > 0
        /\ \E e \in traps : e[2] = wit[w] /\ P_eq(e[1], wu[w])

\* With b - a >= 2 the table of the multithreaded solver has at least one entry
\* and the process is never killed.
MtTableLenAtLeastOneWideInterval ==
    (S_sub3(b, a) >= 2 /\ mpc # "setup") => (m >= 1 /\ ~crashed)

\* ------------------------------------------------- the field of the curve

IsPrime(n) == n > 1 /\ \A k \in 2 .. (n - 1) : n % k # 0

\* The modulus of FIELD_T: the least prime above PrimeFloor.
FieldP ==
    CHOOSE n \in (PrimeFloor + 1) .. (2 * PrimeFloor + 2) :
        IsPrime(n) /\ \A k \in (PrimeFloor + 1) .. (n - 1) : ~IsPrime(k)
FieldMod == FromValue(FieldP)
Field == 0 .. (FieldP - 1)

\* The add group of the field, computed on limb sequences by the ModAddSub
\* operations with MOD = FieldMod, tabulated over the field.
FieldAdd == [s \in Field |-> [t \in Field |->
    Value(ModAddSub_add(FromValue(s), FromValue(t), FieldMod))]]
FieldAddInplace == [s \in Field |-> [t \in Field |->
    Value(ModAddSub_add_inplace(FromValue(s), FromValue(t), FieldMod))]]
FieldSub == [s \in Field |-> [t \in Field |->
    Value(ModAddSub_sub(FromValue(s), FromValue(t), FieldMod))]]
FieldSubInplace == [s \in Field |-> [t \in Field |->
    Value(ModAddSub_sub_inplace(FromValue(s), FromValue(t), FieldMod))]]
FieldNeg == [s \in Field |-> Value(ModAddSub_neg(FromValue(s), FieldMod))]
FieldMulPow2 == [K \in 1 .. 3 |-> [s \in Field |->
    Value(ModAddSub_mul_pow2(K, FromValue(s), FieldMod))]]
FieldInv == [s \in Field \ {0} |-> CHOOSE i \in Field : (s * i) % FieldP = 1]

\* FIELD_T::add(a, b, c), add(a, b), sub(a, b, c), sub(a, b), neg(a, b) and
\* mul_pow2<K>(a).
F_add(s, t) == FieldAdd[s][t]
F_add_inplace(s, t) == FieldAddInplace[s][t]
F_sub(s, t) == FieldSub[s][t]
F_sub_inplace(s, t) == FieldSubInplace[s][t]
F_neg(s) == FieldNeg[s]
F_mul_pow2(K, s) == FieldMulPow2[K][s]

\* FIELD_T::mul(a, b, c): a = b * c in the field.
F_mul(s, t) == (s * t) % FieldP

\* FIELD_T::inv(a, ctx): a = a^-1 in place, for a # 0.
F_inv(s) == FieldInv[s]

\* is_mul_id, set_mul_id: the multiplicative identity of the field.
F_mul_id == CHOOSE i \in Field : \A s \in Field : F_mul(i, s) = s

\* ----------------------------------------------- Jacobian coordinates

\* A point (x, y, z) of Core.
Pt(px, py, pz) == [x |-> px, y |-> py, z |-> pz]
FieldPoints == [x : Field, y : Field, z : Field]

Jacobian_is_inf(pt) == pt.z = 0
Jacobian_set_inf == Pt(0, 0, 0)

\* add_distinct_inner that leaves z = z1 z2, without the factor e.
add_distinct_inner_ZNoE(p1, p2, ta, tb, tc, td) ==
    LET e == F_sub(tb, ta)
        f == F_sub(td, tc)
        e2 == F_mul(e, e)
        e3 == F_mul(e2, e)
        ae2 == F_mul(ta, e2)
        nx == F_sub(F_sub(F_mul(f, f), F_add(ae2, ae2)), e3)
        ny == F_sub(F_mul(f, F_sub(ae2, nx)), F_mul(tc, e3))
    IN  Pt(nx, ny, F_mul(p1.z, p2.z))

\* add_distinct_inner(a, b, c, ctx) with ctx = (x1 z2^2, x2 z1^2, y1 z2^3,
\* y2 z1^3); the result is a.
add_distinct_inner(p1, p2, ta, tb, tc, td) ==
    LET t2a == F_sub_inplace(tb, ta)
        t4a == F_sub_inplace(td, tc)
        az1 == F_mul(t2a, t2a)
        ay1 == F_mul(ta, az1)
        t1a == F_mul(az1, t2a)
        az2 == F_mul(tc, t1a)
        t3a == F_add(ay1, ay1)
        ax1 == F_mul(t4a, t4a)
        ax2 == F_sub_inplace(ax1, t3a)
        ax3 == F_sub_inplace(ax2, t1a)
        t1b == F_sub(ay1, ax3)
        ay2 == F_mul(t4a, t1b)
        ay3 == F_sub_inplace(ay2, az2)
        t1c == F_mul(p1.z, p2.z)
        az3 == F_mul(t1c, t2a)
    IN  Pt(ax3, ay3, az3)

\* on_curve(a, ctx): y^2 = x^3 + A x z^4 + B z^6.
Jacobian_on_curve(pt, A, B) ==
    LET t1a == F_mul(pt.z, pt.z)
        t2a == F_mul(t1a, t1a)
        r1 == F_mul(t1a, t2a)
        l1 == F_mul(pt.x, t2a)
        t2b == F_mul(A, l1)
        t1b == F_mul(B, r1)
        l2 == F_mul(pt.x, pt.x)
        r2 == F_mul(l2, pt.x)
        r3 == F_add_inplace(r2, t2b)
        r4 == F_add_inplace(r3, t1b)
        l3 == F_mul(pt.y, pt.y)
    IN  l3 = r4

\* to_affine that scales y by z^-2 instead of z^-3.
Jacobian_to_affine_YByZ2(pt) ==
    IF Jacobian_is_inf(pt) \/ pt.z = F_mul_id THEN pt
    ELSE LET zi == F_inv(pt.z)
             zi2 == F_mul(zi, zi)
         IN  Pt(F_mul(pt.x, zi2), F_mul(pt.y, zi2), zi)

\* to_affine(a, ctx): nothing for infinity or z = 1; otherwise z is inverted in
\* place, x = x z^-2 and y = y z^-3.
Jacobian_to_affine(pt) ==
    IF Jacobian_is_inf(pt) \/ pt.z = F_mul_id THEN pt
    ELSE LET az1 == F_inv(pt.z)
             t1a == F_mul(az1, az1)
             t2a == F_mul(pt.x, t1a)
             ax1 == t2a
             t2b == F_mul(t1a, az1)
             t1b == F_mul(pt.y, t2b)
             ay1 == t1b
         IN  Pt(ax1, ay1, az1)

\* from_affine that leaves z as it is.
Jacobian_from_affine_Noop(pt) == pt

\* from_affine(a): z = 1.
Jacobian_from_affine(pt) == Pt(pt.x, pt.y, F_mul_id)

\* eq that compares x only.
Jacobian_eq_XOnly(p1, p2) ==
    IF Jacobian_is_inf(p1) /\ Jacobian_is_inf(p2) THEN TRUE
    ELSE IF Jacobian_is_inf(p1) \/ Jacobian_is_inf(p2) THEN FALSE
    ELSE F_mul(p1.x, F_mul(p2.z, p2.z)) = F_mul(p2.x, F_mul(p1.z, p1.z))

\* eq(a, b, ctx)
Jacobian_eq(p1, p2) ==
    LET a_inf == Jacobian_is_inf(p1)
        b_inf == Jacobian_is_inf(p2)
    IN  IF a_inf /\ b_inf THEN TRUE
        ELSE IF a_inf \/ b_inf THEN FALSE
        ELSE IF p1.z = p2.z THEN p1.x = p2.x /\ p1.y = p2.y
        ELSE LET tc1 == F_mul(p1.z, p1.z)
                 td1 == F_mul(p2.z, p2.z)
                 ta1 == F_mul(p1.x, td1)
                 tb1 == F_mul(p2.x, tc1)
             IN  IF ta1 # tb1 THEN FALSE
                 ELSE LET ta2 == F_mul(tc1, p1.z)
                          tb2 == F_mul(td1, p2.z)
                          tc2 == F_mul(p1.y, tb2)
                          td2 == F_mul(p2.y, ta2)
                      IN  IF tc2 # td2 THEN FALSE ELSE TRUE

\* The precomputed values of add and add_distinct: A = x1 z2^2, B = x2 z1^2,
\* C = y1 z2^3, D = y2 z1^3.
PreA(p1, p2) == F_mul(F_mul(p2.z, p2.z), p1.x)
PreB(p1, p2) == F_mul(F_mul(p1.z, p1.z), p2.x)
PreC(p1, p2) == F_mul(F_mul(F_mul(p2.z, p2.z), p2.z), p1.y)
PreD(p1, p2) == F_mul(F_mul(F_mul(p1.z, p1.z), p1.z), p2.y)

\* add_distinct(a, b, c, ctx)
Jacobian_add_distinct(p1, p2) ==
    add_distinct_inner(p1, p2, PreA(p1, p2), PreB(p1, p2), PreC(p1, p2), PreD(p1, p2))

\* add_self that takes 4 y1^4 for 8 y1^4.
Jacobian_add_self_Pow2(p1, A) ==
    LET z2 == F_mul(p1.z, p1.z)
        x2 == F_mul(p1.x, p1.x)
        bb == F_add(F_add(F_add(F_mul(A, F_mul(z2, z2)), x2), x2), x2)
        y2 == F_mul(p1.y, p1.y)
        aa == F_mul_pow2(2, F_mul(p1.x, y2))
        nx == F_sub(F_mul(bb, bb), F_add(aa, aa))
        ny == F_sub(F_mul(bb, F_sub(aa, nx)), F_mul_pow2(2, F_mul(y2, y2)))
    IN  Pt(nx, ny, F_mul_pow2(1, F_mul(p1.y, p1.z)))

\* add_self that ends with z = 2 x1 z1 for z = 2 y1 z1.
Jacobian_add_self_ZFromX(p1, A) ==
    LET z2 == F_mul(p1.z, p1.z)
        x2 == F_mul(p1.x, p1.x)
        bb == F_add(F_add(F_add(F_mul(A, F_mul(z2, z2)), x2), x2), x2)
        y2 == F_mul(p1.y, p1.y)
        aa == F_mul_pow2(2, F_mul(p1.x, y2))
        nx == F_sub(F_mul(bb, bb), F_add(aa, aa))
        ny == F_sub(F_mul(bb, F_sub(aa, nx)), F_mul_pow2(3, F_mul(y2, y2)))
    IN  Pt(nx, ny, F_mul_pow2(1, F_mul(p1.x, p1.z)))

\* add_self(a, b, ctx), A the curve coefficient.
Jacobian_add_self(p1, A) ==
    LET t5a == F_mul(p1.z, p1.z)
        t4a == F_mul(t5a, t5a)
        t5b == F_mul(A, t4a)
        t4b == F_mul(p1.x, p1.x)
        t5c == F_add_inplace(t5b, t4b)
        t5d == F_add_inplace(t5c, t4b)
        t5e == F_add_inplace(t5d, t4b)
        az1 == F_mul(p1.y, p1.y)
        t4c == F_mul(p1.x, az1)
        t4d == F_mul_pow2(2, t4c)
        ay1 == F_add(t4d, t4d)
        ax1 == F_mul(t5e, t5e)
        ax2 == F_sub_inplace(ax1, ay1)
        t4e == F_sub_inplace(t4d, ax2)
        ay2 == F_mul(t5e, t4e)
        t4f == F_mul(az1, az1)
        t4g == F_mul_pow2(3, t4f)
        ay3 == F_sub_inplace(ay2, t4g)
        az2 == F_mul(p1.y, p1.z)
        az3 == F_mul_pow2(1, az2)
    IN  Pt(ax2, ay3, az3)

\* add that does not test whether the second operand is infinity.
Jacobian_add_NoSecondInf(p1, p2, A) ==
    IF Jacobian_is_inf(p1) THEN p2
    ELSE IF PreA(p1, p2) = PreB(p1, p2) /\ PreC(p1, p2) = PreD(p1, p2)
         THEN Jacobian_add_self(p1, A)
         ELSE add_distinct_inner(p1, p2, PreA(p1, p2), PreB(p1, p2),
                                 PreC(p1, p2), PreD(p1, p2))

\* add(a, b, c, ctx)
Jacobian_add(p1, p2, A) ==
    IF Jacobian_is_inf(p1) THEN p2
    ELSE IF Jacobian_is_inf(p2) THEN p1
    ELSE LET ta == PreA(p1, p2)
             tb == PreB(p1, p2)
             tc == PreC(p1, p2)
             td == PreD(p1, p2)
         IN  IF ta = tb /\ tc = td
             THEN Jacobian_add_self(p1, A)
             ELSE add_distinct_inner(p1, p2, ta, tb, tc, td)

\* neg(a, b)
Jacobian_neg(p1) == Pt(p1.y, F_neg(p1.y), p1.z)

\* ------------------------------------------------------ calls on curve points

\* The coefficients of an elliptic curve: 4 A^3 + 27 B^2 # 0 in the field.
Curves ==
    {c \in Field \X Field : (4 * c[1] * c[1] * c[1] + 27 * c[2] * c[2]) % FieldP # 0}

\* The points a caller holds: every Jacobian representative that satisfies
\* on_curve, the representatives of infinity among them.
OnCurvePoints(A, B) == {pt \in FieldPoints : Jacobian_on_curve(pt, A, B)}

\* A curve and two points on it; nothing has been called yet.
CurveInit ==
    /\ \E c \in Curves : cA = c[1] /\ cB = c[2]
    /\ cp \in OnCurvePoints(cA, cB)
    /\ cq \in OnCurvePoints(cA, cB)
    /\ cr = Jacobian_set_inf
    /\ ceq = FALSE
    /\ cop = "none"
    /\ cprev = "none"
    /\ MOD = ZeroSeq /\ fa = ZeroSeq /\ fb = ZeroSeq
    /\ fk = 0 /\ fop = "idle" /\ fout = ZeroSeq /\ fflag = FALSE
    /\ SolverIdle

curveFrame == <<fieldVars, solverVars, cA, cB>>

\* One call that leaves its result in cr.
Call(op, out) ==
    /\ cop = "none"
    /\ cr' = out
    /\ cop' = op
    /\ UNCHANGED <<cp, cq, ceq, cprev, curveFrame>>

\* neg(r, p)
CNeg == Call("neg", Jacobian_neg(cp))

\* neg(q, r) after neg(r, p): the negation of the negation.
CNegAgain ==
    /\ cop = "neg"
    /\ cq' = Jacobian_neg(cr)
    /\ cop' = "neg_neg"
    /\ cprev' = "neg"
    /\ UNCHANGED <<cp, cr, ceq, curveFrame>>

\* neg(q, p): the second operand becomes the negation of the first.
CNegQ ==
    /\ cop = "none"
    /\ cprev = "none"
    /\ cq' = Jacobian_neg(cp)
    /\ cprev' = "neg_q"
    /\ UNCHANGED <<cp, cr, ceq, cop, curveFrame>>

\* add(r, p, q)
CAdd == Call("add", Jacobian_add(cp, cq, cA))

\* add_self(r, p)
CAddSelf ==
    /\ cprev = "none"
    /\ Call("add_self", Jacobian_add_self(cp, cA))

\* add_distinct(r, p, q): the caller passes two points that are not infinity
\* and have different x.
CAddDistinct ==
    /\ cprev = "none"
    /\ ~Jacobian_is_inf(cp)
    /\ ~Jacobian_is_inf(cq)
    /\ PreA(cp, cq) # PreB(cp, cq)
    /\ Call("add_distinct", Jacobian_add_distinct(cp, cq))

\* eq(p, q)
CEq ==
    /\ cop = "none"
    /\ ceq' = Jacobian_eq(cp, cq)
    /\ cop' = "eq"
    /\ UNCHANGED <<cp, cq, cr, cprev, curveFrame>>

\* r = p; to_affine(r)
CToAffine ==
    /\ cprev = "none"
    /\ Call("to_affine", Jacobian_to_affine(cp))

\* from_affine(r) right after to_affine(r)
CFromAffine ==
    /\ cop = "to_affine"
    /\ cr' = Jacobian_from_affine(cr)
    /\ cop' = "from_affine"
    /\ cprev' = "to_affine"
    /\ UNCHANGED <<cp, cq, ceq, curveFrame>>

CurveNext ==
    \/ CNeg
    \/ CNegAgain
    \/ CNegQ
    \/ CAdd
    \/ CAddSelf
    \/ CAddDistinct
    \/ CEq
    \/ CToAffine
    \/ CFromAffine

SpecCurve == CurveInit /\ [][CurveNext]_vars

\* ------------------------------------------------------ claims on the curve

\* The affine coordinates x / z^2 and y / z^3 of a point that is not infinity.
AffX(pt) == F_mul(pt.x, F_mul(F_inv(pt.z), F_inv(pt.z)))
AffY(pt) == F_mul(pt.y, F_mul(F_inv(pt.z), F_mul(F_inv(pt.z), F_inv(pt.z))))

\* Two triples denote the same point of the curve.
SamePoint(p1, p2) ==
    IF Jacobian_is_inf(p1) \/ Jacobian_is_inf(p2)
    THEN Jacobian_is_inf(p1) /\ Jacobian_is_inf(p2)
    ELSE AffX(p1) = AffX(p2) /\ AffY(p1) = AffY(p2)

\* The cross-multiplied test: x1 z2^2 = x2 z1^2 and y1 z2^3 = y2 z1^3.
CrossEq(p1, p2) ==
    PreA(p1, p2) = PreB(p1, p2) /\ PreC(p1, p2) = PreD(p1, p2)

\* The representative (l^2 x, l^3 y, l z) of the same point.
Rescale(pt, l) ==
    Pt(F_mul(F_mul(l, l), pt.x), F_mul(F_mul(F_mul(l, l), l), pt.y), F_mul(l, pt.z))

\* The group inverse (x, -y, z).
Inverse(pt) == Pt(pt.x, (FieldP - pt.y) % FieldP, pt.z)

\* C12: neg(a, b) negates only y: afterwards a.x = b.x, a.y = -b.y mod M and
\* a.z = b.z, and neg(neg(b)) = b.
C12_NegNegatesY ==
    /\ cop = "neg" => cr = Inverse(cp)
    /\ cop = "neg_neg" => cq = cp

\* C13: for every non-infinity on-curve point p, q = neg(p) with the library's
\* neg and then add(out, p, q) yields the point at infinity.
C13_AddNegIsInf ==
    (/\ cop = "add"
     /\ cprev = "neg_q"
     /\ ~Jacobian_is_inf(cp)
     /\ Jacobian_on_curve(cp, cA, cB)) => Jacobian_is_inf(cr)

\* add(out, p, q) with q the group inverse (x, -y, z) of a non-infinity p, in
\* any representation, is the point at infinity.
CurveAddInverseIsInf ==
    (/\ cop = "add"
     /\ ~Jacobian_is_inf(cp)
     /\ ~Jacobian_is_inf(cq)
     /\ SamePoint(cq, Inverse(cp))) => Jacobian_is_inf(cr)

\* C14: in add(out, p, q) with p and q both non-infinity, when A = B and
\* C = -D the output is the point at infinity (z = 0).
C14_AddOppositeIsInf ==
    (/\ cop = "add"
     /\ ~Jacobian_is_inf(cp)
     /\ ~Jacobian_is_inf(cq)
     /\ PreA(cp, cq) = PreB(cp, cq)
     /\ PreC(cp, cq) = (FieldP - PreD(cp, cq)) % FieldP) => cr.z = 0

\* C14 witness: p and its inverse in another representation (different z),
\* with y # 0, have been added and the result has z = 0.
C14_Witness ==
    /\ cop = "add"
    /\ cp.z # 0 /\ cq.z # 0 /\ cp.z # cq.z
    /\ cp.y # 0
    /\ PreA(cp, cq) = PreB(cp, cq)
    /\ PreC(cp, cq) = (FieldP - PreD(cp, cq)) % FieldP
    /\ cr.z = 0

\* C15: add is commutative up to point equality: for all on-curve p, q
\* (infinity, p = q and p = -q included) eq(add(p, q), add(q, p)) holds.
C15_AddCommutes ==
    (/\ cop = "add"
     /\ Jacobian_on_curve(cp, cA, cB)
     /\ Jacobian_on_curve(cq, cA, cB)) => Jacobian_eq(cr, Jacobian_add(cq, cp, cA))

\* C15 witness: two distinct non-infinity points have been added, the sum is
\* not infinity and add(q, p) is another representative of it.
C15_Witness ==
    /\ cop = "add"
    /\ cprev = "none"
    /\ cp.z # 0 /\ cq.z # 0 /\ cr.z # 0
    /\ cr # Jacobian_add(cq, cp, cA)
    /\ Jacobian_eq(cr, Jacobian_add(cq, cp, cA))

\* C16: for on-curve inputs the result of add_distinct, add_self and add is
\* either the point at infinity or satisfies on_curve.
C16_CurveClosure ==
    (/\ cop \in {"add", "add_self", "add_distinct"}
     /\ Jacobian_on_curve(cp, cA, cB)
     /\ Jacobian_on_curve(cq, cA, cB)) =>
        Jacobian_is_inf(cr) \/ Jacobian_on_curve(cr, cA, cB)

\* C16 witness: a doubling of a point with z # 1 gave a point that is not
\* infinity and is on the curve.
C16_Witness ==
    /\ cop = "add_self"
    /\ cp.z # 0 /\ cp.z # F_mul_id
    /\ cr.z # 0
    /\ Jacobian_on_curve(cr, cA, cB)

\* C17: eq(a, b) is true exactly when a and b denote the same point: both
\* infinity, or neither and x1 z2^2 = x2 z1^2 and y1 z2^3 = y2 z1^3; the equal-z
\* shortcut agrees with the cross-multiplied test, and eq(p, (l^2 x, l^3 y, l z))
\* holds for every l # 0.
C17_EqIsSamePoint ==
    cop = "eq" =>
        /\ ceq <=> SamePoint(cp, cq)
        /\ (~Jacobian_is_inf(cp) /\ ~Jacobian_is_inf(cq)) => (ceq <=> CrossEq(cp, cq))
        /\ \A l \in 1 .. (FieldP - 1) : Jacobian_eq(cp, Rescale(cp, l))

\* C17 witness: eq has answered true for two representatives with different z,
\* neither infinity.
C17_Witness ==
    /\ cop = "eq"
    /\ ceq
    /\ cp.z # 0 /\ cq.z # 0 /\ cp.z # cq.z

\* C18: to_affine(p) never changes z: it is a no-op when p is infinity or
\* z = 1, and otherwise rewrites only x to x/z^2 and y to y/z^3, leaving z with
\* the value it had before the call.
C18_ToAffineKeepsZ ==
    cop = "to_affine" =>
        /\ cr.z = cp.z
        /\ (Jacobian_is_inf(cp) \/ cp.z = F_mul_id) => cr = cp
        /\ ~(Jacobian_is_inf(cp) \/ cp.z = F_mul_id) =>
              cr.x = AffX(cp) /\ cr.y = AffY(cp)

\* C18 as amended: to_affine(p) is a no-op when p is infinity or z = 1;
\* otherwise it rewrites x to x/z^2, y to y/z^3 and leaves z holding the inverse
\* 1/z of the value it had before the call.
C18_ToAffineInvertsZ ==
    cop = "to_affine" =>
        /\ (Jacobian_is_inf(cp) \/ cp.z = F_mul_id) => cr = cp
        /\ ~(Jacobian_is_inf(cp) \/ cp.z = F_mul_id) =>
              /\ cr.x = AffX(cp)
              /\ cr.y = AffY(cp)
              /\ F_mul(cr.z, cp.z) = F_mul_id

\* C18 witness: to_affine of a point whose z is neither 0 nor 1 nor its own
\* inverse has left another z.
C18_Witness ==
    /\ cop = "to_affine"
    /\ cp.z # 0 /\ cp.z # F_mul_id
    /\ cr.z # cp.z
    /\ cp.y # 0
    /\ F_mul(cr.z, cp.z) = F_mul_id

\* C19: for every non-infinity on-curve point p, to_affine and then
\* from_affine yields a point with z = 1 that is on the curve and eq to p.
C19_AffineRoundTrip ==
    (/\ cop = "from_affine"
     /\ cprev = "to_affine"
     /\ ~Jacobian_is_inf(cp)
     /\ Jacobian_on_curve(cp, cA, cB)) =>
        /\ cr.z = F_mul_id
        /\ Jacobian_on_curve(cr, cA, cB)
        /\ Jacobian_eq(cr, cp)

\* C19 witness: the round trip of a point with z not 1 and not its own inverse
\* has given z = 1 and other x, y.
C19_Witness ==
    /\ cop = "from_affine"
    /\ cprev = "to_affine"
    /\ cp.z # 0 /\ cp.z # F_mul_id
    /\ F_mul(cp.z, cp.z) # F_mul_id
    /\ cr.z = F_mul_id
    /\ cr.x # cp.x

\* C30: add_self maps the point at infinity (z = 0, with any x and y) and every
\* point with y = 0 to the point at infinity (output z = 0), and so does add
\* when both operands are such a point, although add has no branch for it.
C30_AddSelfOfInfOrOrder2IsInf ==
    /\ (cop = "add_self" /\ (cp.z = 0 \/ cp.y = 0)) => cr.z = 0
    /\ (cop = "add_self" /\ cp.z = 0) =>
          \A px \in Field, py \in Field :
              Jacobian_add_self(Pt(px, py, 0), cA).z = 0
    /\ (cop = "add" /\ Jacobian_eq(cp, cq) /\ (cp.z = 0 \/ cp.y = 0)) => cr.z = 0

\* C30 witness: a point of order 2 (y = 0) that is not infinity, with z # 1, has
\* been doubled: the result has z = 0 and an x that is not cleared.
C30_Witness ==
    /\ cop = "add_self"
    /\ cp.y = 0
    /\ cp.z # 0 /\ cp.z # F_mul_id
    /\ cp.x # 0
    /\ cr.z = 0
    /\ cr.x # 0
====
